---- MODULE Spec2Model ----
(***************************************************************************)
(* A model of the Pantry Peeper setup scripts: the configuration object    *)
(* (azure_vision_config.py), the dataset preparer (data_preparation.py),   *)
(* the trainer (model_training.py), the tester and the acceptance          *)
(* validator (model_testing.py) and the orchestrator main()                *)
(* (setup_pantry_peeper.py).                                               *)
(*                                                                         *)
(* Conventions.  Python's None is the record None; a dict is a record (a   *)
(* function on its keys), the empty dict and the empty list are <<>>.  A   *)
(* method is an operator returning [self, ret, exc]: the object after the  *)
(* call, the value returned and the exception that escapes it (NoExc when  *)
(* none).  What the environment decides (whether the SDK's client          *)
(* constructor raises, whether a file write fails, what the wall clock     *)
(* reads) is an argument the calling action draws with \E.  Timestamps     *)
(* that no decision reads (isoformat() fields) are left out of the         *)
(* records; the second-resolution clock that makes the job id is kept.     *)
(*                                                                         *)
(* Specifications: SpecConfig (the configuration object called directly),  *)
(* SpecData (prepare_training_data, one loop iteration per step),          *)
(* SpecTester (the tester and the validator called directly), SpecMain     *)
(* (one run of main(), one stage per step) and FairSpecMain (the same,     *)
(* with the progress a sequential program makes).                          *)
(***************************************************************************)
EXTENDS Integers, Sequences, FiniteSets, TLC

VARIABLES
    env,            \* the process environment after load_dotenv(): name -> string
    sdk_available,  \* ImageAnalysisClient and AzureKeyCredential were importable
    config,         \* the AzureVisionConfig object, or None
    call,           \* the last direct call of a method: [op, arg, ret, exc, ...]
    train_ratio,    \* prepare_training_data's argument, a decimal literal in hundredths
    prep_pc,        \* where prepare_training_data is: "idle", "loop", "returned"
    cat_idx,        \* the outer loop's position in PANTRY_ITEMS (1-based)
    img_idx,        \* the inner loop's i
    train_files,    \* prepare_training_data's local train_files
    val_files,      \* prepare_training_data's local val_files
    fs,             \* the placeholder image files that exist on disk
    tester,         \* the ModelTester object (validate_model's in a run of main), or None
    trainer,        \* the PantryModelTrainer object, or None
    validator,      \* the AcceptanceCriteriValidator object, or None
    clock,          \* the wall clock, in whole seconds
    pc,             \* where main() is
    exit_status,    \* the status the process exited with, or None
    training_data,  \* main's local of that name
    training_result,    \* main's local of that name
    validation_result,  \* main's local of that name
    acceptance_report,  \* main's local of that name
    reports,        \* the JSON files written: file name -> content
    console         \* the lines printed, in order (the text that decides nothing cut)

configVars == <<env, sdk_available, config>>
dataVars == <<train_ratio, prep_pc, cat_idx, img_idx, train_files, val_files, fs>>
objVars == <<tester, trainer, validator, clock>>
mainVars == <<pc, exit_status, training_data, training_result, validation_result,
              acceptance_report, reports, console>>

vars == <<env, sdk_available, config, call, train_ratio, prep_pc, cat_idx, img_idx,
          train_files, val_files, fs, tester, trainer, validator, clock, pc, exit_status,
          training_data, training_result, validation_result, acceptance_report, reports,
          console>>

None == [NoneType |-> TRUE]
NoExc == "no exception"

\* A local assigned once: Body with its parameter naming the value of v.
Bind(v, Body(_)) == CHOOSE out \in {Body(x) : x \in {v}} : TRUE
EmptyDict == << >>
NoCall == [op |-> "none"]

\* os.getenv gives None for an unset name; the model keeps environment values as
\* strings and writes that None as NoneStr, which no environment value equals.
NoneStr == "<None>"

(***************************************************************************)
(* The environment                                                         *)
(***************************************************************************)
EnvNames == {"AZURE_VISION_ENDPOINT", "AZURE_VISION_API_KEY", "AZURE_VISION_PROJECT"}
Endpoints == {"", "https://a.cognitiveservices.azure.com/", "https://b.cognitiveservices.azure.com/"}
ApiKeys == {"", "key-1", "key-2"}
Projects == {"", "my-pantry"}

EnvValues(name) ==
    CASE name = "AZURE_VISION_ENDPOINT" -> Endpoints
      [] name = "AZURE_VISION_API_KEY" -> ApiKeys
      [] OTHER -> Projects

\* Every environment: any subset of the three names set, each to one of its values.
Environments ==
    UNION { { e \in [S -> Endpoints \cup ApiKeys \cup Projects] :
                \A n \in S : e[n] \in EnvValues(n) } : S \in SUBSET EnvNames }

getenv(e, name, default) == IF name \in DOMAIN e THEN e[name] ELSE default

\* Python's truth value of an Optional[str].
Truthy(s) == s # NoneStr /\ s # ""

(***************************************************************************)
(* azure_vision_config.py                                                  *)
(***************************************************************************)
AzureVisionConfig_init_no_key_check(e) ==
    LET obj == [endpoint |-> getenv(e, "AZURE_VISION_ENDPOINT", NoneStr),
                 api_key |-> getenv(e, "AZURE_VISION_API_KEY", NoneStr),
                 project_name |-> getenv(e, "AZURE_VISION_PROJECT", "pantry-peeper")]
    IN  IF ~Truthy(obj.endpoint)
        THEN [self |-> None, ret |-> None, exc |-> "ValueError"]
        ELSE [self |-> obj, ret |-> None, exc |-> NoExc]

AzureVisionConfig_init(e) ==
    LET obj == [endpoint |-> getenv(e, "AZURE_VISION_ENDPOINT", NoneStr),
                 api_key |-> getenv(e, "AZURE_VISION_API_KEY", NoneStr),
                 project_name |-> getenv(e, "AZURE_VISION_PROJECT", "pantry-peeper")]
    IN  IF ~Truthy(obj.endpoint) \/ ~Truthy(obj.api_key)
        THEN [self |-> None, ret |-> None, exc |-> "ValueError"]
        ELSE [self |-> obj, ret |-> None, exc |-> NoExc]

\* What constructing the client can do: without the SDK the mock stand-in is built
\* and its constructor only stores its arguments; with the SDK the real
\* constructor either returns a client or raises.
ClientOutcomes(sdk) == IF sdk THEN {"client", "raise"} ELSE {"mock"}

get_client(self, outcome) ==
    IF outcome = "raise"
    THEN [self |-> self, ret |-> None, exc |-> "Exception"]
    ELSE [self |-> self, ret |-> [client |-> outcome], exc |-> NoExc]

validate_connection_uncaught(self, outcome) ==
    LET r == get_client(self, outcome)
    IN  IF r.exc = NoExc
        THEN [self |-> r.self, ret |-> TRUE, exc |-> NoExc]
        ELSE [self |-> r.self, ret |-> None, exc |-> r.exc]

validate_connection(self, outcome) ==
    LET r == get_client(self, outcome)
    IN  IF r.exc = NoExc
        THEN [self |-> r.self, ret |-> TRUE, exc |-> NoExc]
        ELSE [self |-> r.self, ret |-> FALSE, exc |-> NoExc]

get_config_dict_with_key(self) ==
    [endpoint |-> self.endpoint,
     project_name |-> self.project_name,
     api_key |-> self.api_key,
     service_type |-> "Azure Computer Vision"]

get_config_dict(self) ==
    [endpoint |-> self.endpoint,
     project_name |-> self.project_name,
     service_type |-> "Azure Computer Vision"]

(***************************************************************************)
(* Python floats.  train_ratio is a float and num_images * train_ratio is  *)
(* a float product that int() truncates, so the split point is computed in *)
(* IEEE 754 binary64 as the interpreter computes it.  A natural number too *)
(* wide for TLC's integers is a sequence of limbs of LimbBits bits         *)
(* (for arithmetic) or a sequence of bits without leading zeros (for       *)
(* rounding), most significant first; a float is [m, e], the value         *)
(* m * 2^e with m a sequence of at most MantissaBits bits.                 *)
(***************************************************************************)
MantissaBits == 53
LimbBits == 16
LimbBase == 2 ^ LimbBits
\* How many zero limbs a decimal literal's numerator is extended by before the
\* division: the quotient then has more than MantissaBits + 1 bits for every
\* literal of at least 1/RatioDen, and any larger number gives the same float.
ScaleLimbs == 4
RatioDen == 100

\* The value of at most LimbBits bits.
RECURSIVE BitsToNat(_)
BitsToNat(b) ==
    IF b = << >> THEN 0 ELSE 2 * BitsToNat(SubSeq(b, 1, Len(b) - 1)) + b[Len(b)]

\* b without its leading zeros.
Strip(b) ==
    IF \A i \in 1..Len(b) : b[i] = 0 THEN << >>
    ELSE SubSeq(b, CHOOSE i \in 1..Len(b) : b[i] = 1 /\ \A j \in 1..(i - 1) : b[j] = 0, Len(b))

LimbsToBits(a) ==
    Strip([j \in 1..(LimbBits * Len(a)) |->
              (a[((j - 1) \div LimbBits) + 1] \div (2 ^ (LimbBits - 1 - ((j - 1) % LimbBits)))) % 2])

BitsToLimbs(b) ==
    LET count == (Len(b) + LimbBits - 1) \div LimbBits
        padded == [j \in 1..(count * LimbBits - Len(b)) |-> 0] \o b
    IN  [j \in 1..count |-> BitsToNat(SubSeq(padded, (j - 1) * LimbBits + 1, j * LimbBits))]

\* a * k + carry for a small k, from the least significant limb.
RECURSIVE MulLimbs(_, _, _)
MulLimbs(a, k, carry) ==
    IF a = << >> THEN <<carry>>
    ELSE MulLimbs(SubSeq(a, 1, Len(a) - 1), k, (a[Len(a)] * k + carry) \div LimbBase)
             \o <<(a[Len(a)] * k + carry) % LimbBase>>

\* Long division of a by a small d: [q, r] with a = q * d + r.
RECURSIVE DivLimbs(_, _)
DivLimbs(a, d) ==
    IF a = << >> THEN [q |-> << >>, r |-> 0]
    ELSE LET p == DivLimbs(SubSeq(a, 1, Len(a) - 1), d)
             t == p.r * LimbBase + a[Len(a)]
         IN  [q |-> p.q \o <<t \div d>>, r |-> t % d]

\* b + 1 on bits.
Inc(b) ==
    IF \A i \in 1..Len(b) : b[i] = 1 THEN <<1>> \o [i \in 1..Len(b) |-> 0]
    ELSE LET low == CHOOSE i \in 1..Len(b) : b[i] = 0 /\ \A j \in (i + 1)..Len(b) : b[j] = 1
         IN  [i \in 1..Len(b) |-> IF i < low THEN b[i] ELSE IF i = low THEN 1 ELSE 0]

\* The float nearest to (b + f) * 2^e, ties to even, where 0 <= f < 1 and sticky
\* says f > 0; b is stripped, and has more than MantissaBits bits when sticky.
RoundToFloat(b, sticky, e) ==
    IF Len(b) <= MantissaBits THEN [m |-> b, e |-> e]
    ELSE LET drop == Len(b) - MantissaBits
             head == SubSeq(b, 1, MantissaBits)
             guard == b[MantissaBits + 1]
             rest == sticky \/ \E i \in (MantissaBits + 2)..Len(b) : b[i] = 1
             up == guard = 1 /\ (rest \/ head[MantissaBits] = 1)
             rounded == IF up THEN Inc(head) ELSE head
         IN  IF Len(rounded) > MantissaBits
             THEN [m |-> SubSeq(rounded, 1, MantissaBits), e |-> e + drop + 1]
             ELSE [m |-> rounded, e |-> e + drop]

\* The float a decimal literal n/RatioDen denotes (float("0.58"), or 58/100): the
\* correctly rounded quotient.
FloatOfRatio(n) ==
    IF n = 0 THEN [m |-> << >>, e |-> 0]
    ELSE LET quot == DivLimbs(<<n>> \o [i \in 1..ScaleLimbs |-> 0], RatioDen)
         IN  RoundToFloat(LimbsToBits(quot.q), quot.r # 0, 0 - LimbBits * ScaleLimbs)

\* k * x for an int k and a float x: the exact product, rounded once.
FloatMulInt(k, x) == RoundToFloat(LimbsToBits(MulLimbs(BitsToLimbs(x.m), k, 0)), FALSE, x.e)

\* int(x) for a float 0 <= x < 2^LimbBits: truncation.
IntOfFloat(x) ==
    IF x.e >= 0 THEN BitsToNat(x.m \o [i \in 1..x.e |-> 0])
    ELSE IF 0 - x.e >= Len(x.m) THEN 0
         ELSE BitsToNat(SubSeq(x.m, 1, Len(x.m) + x.e))

(***************************************************************************)
(* data_preparation.py                                                     *)
(***************************************************************************)
PANTRY_ITEMS ==
    <<"flour", "sugar", "salt", "rice", "pasta", "beans",
      "canned_vegetables", "canned_fruits", "oil", "butter",
      "milk", "cheese", "eggs", "bread", "cereal">>

num_images == 50

Digit(d) ==
    CASE d = 0 -> "0" [] d = 1 -> "1" [] d = 2 -> "2" [] d = 3 -> "3" [] d = 4 -> "4"
      [] d = 5 -> "5" [] d = 6 -> "6" [] d = 7 -> "7" [] d = 8 -> "8" [] d = 9 -> "9"

\* f"{i:04d}" for 0 <= i < 10000.
Format04d(i) ==
    Digit(i \div 1000) \o Digit((i \div 100) % 10) \o Digit((i \div 10) % 10) \o Digit(i % 10)

\* str(self.prepared_dir / category / f"{category}_{i:04d}.jpg") with the default
\* data_dir "./pantry_data" (pathlib drops the leading "./").
FilePath(category, i) ==
    "pantry_data/prepared/" \o category \o "/" \o category \o "_" \o Format04d(i) \o ".jpg"

\* int(num_images * train_ratio)
SplitPoint(ratio) == IntOfFloat(FloatMulInt(num_images, FloatOfRatio(ratio)))

\* One iteration of the inner loop on st = [train_files, val_files, fs].
LoopBody_off_by_one(st, category, i, ratio) ==
    LET filepath == FilePath(category, i)
    IN  [fs |-> st.fs \cup {filepath},
         train_files |-> IF i <= SplitPoint(ratio)
                         THEN Append(st.train_files, filepath) ELSE st.train_files,
         val_files |-> IF i <= SplitPoint(ratio)
                       THEN st.val_files ELSE Append(st.val_files, filepath)]

LoopBody(st, category, i, ratio) ==
    LET filepath == FilePath(category, i)
    IN  [fs |-> st.fs \cup {filepath},
         train_files |-> IF i < SplitPoint(ratio)
                         THEN Append(st.train_files, filepath) ELSE st.train_files,
         val_files |-> IF i < SplitPoint(ratio)
                       THEN st.val_files ELSE Append(st.val_files, filepath)]

\* The iterations of the two nested loops, in the order they run.
Iterations ==
    [j \in 1..(Len(PANTRY_ITEMS) * num_images) |->
        [category |-> PANTRY_ITEMS[((j - 1) \div num_images) + 1], i |-> (j - 1) % num_images]]

PathOf(it) == FilePath(it.category, it.i)
PathsOf(its) == [j \in 1..Len(its) |-> PathOf(its[j])]

\* prepare_training_data(train_ratio) run to its end: every iteration appends its
\* path to train_files when i is below the split point and to val_files otherwise;
\* files are the placeholders it creates where they do not exist yet.
prepare_training_data(ratio) ==
    Bind(SplitPoint(ratio), LAMBDA split :
      Bind(SelectSeq(Iterations, LAMBDA it : it.i < split), LAMBDA to_train :
        Bind(SelectSeq(Iterations, LAMBDA it : ~(it.i < split)), LAMBDA to_val :
          [ret |-> [train |-> [k \in DOMAIN to_train |-> PathOf(to_train[k])],
                    validation |-> [k \in DOMAIN to_val |-> PathOf(to_val[k])]],
           files |-> {PathOf(Iterations[j]) : j \in DOMAIN Iterations}])))

(***************************************************************************)
(* model_testing.py.  Confidences and thresholds are in hundredths.  The   *)
(* quotients the code compares with a threshold (correct / total >= 0.85,  *)
(* high / len >= 0.8) are compared as exact fractions: a correctly rounded *)
(* quotient of two small integers lies on the same side of the rounded     *)
(* literal as the exact fraction does.                                     *)
(***************************************************************************)
accuracy_threshold == 85

\* ModelTester.__init__(config) with a config given: get_client() may raise.
ModelTester_init(cfg, outcome) ==
    IF get_client(cfg, outcome).exc # NoExc
    THEN [self |-> None, ret |-> None, exc |-> get_client(cfg, outcome).exc]
    ELSE [self |-> [test_results |-> << >>, accuracy_threshold |-> accuracy_threshold],
          ret |-> None, exc |-> NoExc]

InferenceResult(image_path) ==
    [image_path |-> image_path,
     predictions |->
        <<[category |-> "flour", confidence |-> 92,
           bounding_box |-> [x |-> 10, y |-> 20, width |-> 100, height |-> 110]],
          [category |-> "sugar", confidence |-> 15,
           bounding_box |-> [x |-> 120, y |-> 20, width |-> 80, height |-> 90]]>>,
     model_version |-> "1.0"]

test_inference_replaces(self, image_path) ==
    [self |-> [self EXCEPT !.test_results = <<InferenceResult(image_path)>>],
     ret |-> InferenceResult(image_path),
     exc |-> NoExc]

test_inference(self, image_path) ==
    [self |-> [self EXCEPT !.test_results = Append(@, InferenceResult(image_path))],
     ret |-> InferenceResult(image_path),
     exc |-> NoExc]

RECURSIVE SuiteLoop_reversed(_, _)
SuiteLoop_reversed(self, test_images) ==
    IF test_images = << >> THEN self
    ELSE test_inference(SuiteLoop_reversed(self, Tail(test_images)), Head(test_images)).self

\* The tester after the suite's loop has run test_inference on each path in order.
RECURSIVE SuiteLoop(_, _)
SuiteLoop(self, test_images) ==
    IF test_images = << >> THEN self
    ELSE SuiteLoop(test_inference(self, Head(test_images)).self, Tail(test_images))

\* correct / total as a fraction [num, den]; the literal 0 of the empty case is
\* [num |-> 0, den |-> 1].
Quotient(correct, total) ==
    IF total > 0 THEN [num |-> correct, den |-> total] ELSE [num |-> 0, den |-> 1]

AtLeastHundredths(q, h) == q.num * 100 >= h * q.den

run_validation_suite_divides(self, test_images) ==
    LET results == [j \in 1..Len(test_images) |-> InferenceResult(test_images[j])]
        total_predictions == Len(test_images)
        correct_predictions ==
            Cardinality({j \in 1..Len(results) :
                            results[j].predictions[1].confidence > self.accuracy_threshold})
    IN  IF total_predictions = 0
        THEN [self |-> self, ret |-> None, exc |-> "ZeroDivisionError"]
        ELSE [self |-> SuiteLoop(self, test_images),
              ret |-> [total_images |-> Len(test_images),
                       results |-> results,
                       summary |->
                          [accuracy |-> Quotient(correct_predictions, total_predictions),
                           correct_predictions |-> correct_predictions,
                           total_predictions |-> total_predictions,
                           passes_threshold |->
                              AtLeastHundredths(Quotient(correct_predictions, total_predictions),
                                                self.accuracy_threshold),
                           threshold |-> self.accuracy_threshold]],
              exc |-> NoExc]

run_validation_suite(self, test_images) ==
    LET results == [j \in 1..Len(test_images) |-> InferenceResult(test_images[j])]
        total_predictions == Len(test_images)
        correct_predictions ==
            Cardinality({j \in 1..Len(results) :
                            results[j].predictions[1].confidence > self.accuracy_threshold})
    IN  [self |-> SuiteLoop(self, test_images),
         ret |-> [total_images |-> Len(test_images),
                  results |-> results,
                  summary |->
                     [accuracy |-> Quotient(correct_predictions, total_predictions),
                      correct_predictions |-> correct_predictions,
                      total_predictions |-> total_predictions,
                      passes_threshold |->
                         AtLeastHundredths(Quotient(correct_predictions, total_predictions),
                                           self.accuracy_threshold),
                      threshold |-> self.accuracy_threshold]],
         exc |-> NoExc]

test_performance(self, sample_size) ==
    [self |-> self,
     ret |-> [test_sample_size |-> sample_size,
              metrics |-> [average_inference_time_ms |-> "145.3",
                           throughput_images_per_sec |-> "6.9",
                           memory_usage_mb |-> 512,
                           latency_p50_ms |-> 120,
                           latency_p95_ms |-> 250,
                           latency_p99_ms |-> 400],
              status |-> "within_sla"],
     exc |-> NoExc]

_check_accuracy_threshold_vacuous(self) ==
    LET total_high_confidence ==
            Cardinality({j \in 1..Len(self.test_results) :
                /\ self.test_results[j].predictions # << >>
                /\ self.test_results[j].predictions[1].confidence > self.accuracy_threshold})
    IN  total_high_confidence * 100 >= 80 * Len(self.test_results)

_check_accuracy_threshold(self) ==
    IF self.test_results = << >> THEN FALSE
    ELSE LET total_high_confidence ==
                 Cardinality({j \in 1..Len(self.test_results) :
                     /\ self.test_results[j].predictions # << >>
                     /\ self.test_results[j].predictions[1].confidence > self.accuracy_threshold})
         IN  AtLeastHundredths(Quotient(total_high_confidence, Len(self.test_results)), 80)

verify_acceptance_criteria_vacuous(self, cfg, outcome) ==
    [self |-> self,
     ret |-> [azure_vision_configured |-> validate_connection(cfg, outcome).ret,
              model_accuracy_validated |-> Len(self.test_results) > 0,
              accuracy_above_threshold |-> _check_accuracy_threshold(self),
              inference_working |->
                 \A j \in 1..Len(self.test_results) : self.test_results[j].predictions # << >>],
     exc |-> NoExc]

\* verify_acceptance_criteria(): self.config is cfg; outcome is what get_client does
\* inside validate_connection.
verify_acceptance_criteria(self, cfg, outcome) ==
    [self |-> self,
     ret |-> [azure_vision_configured |-> validate_connection(cfg, outcome).ret,
              model_accuracy_validated |-> Len(self.test_results) > 0,
              accuracy_above_threshold |-> _check_accuracy_threshold(self),
              inference_working |->
                 IF self.test_results # << >>
                 THEN \A j \in 1..Len(self.test_results) :
                         self.test_results[j].predictions # << >>
                 ELSE FALSE],
     exc |-> NoExc]

\* all(d.values()) of a dict of booleans.
AllValues(d) == \A key \in DOMAIN d : d[key]

\* generate_test_report(): verify_acceptance_criteria() is called twice, so the
\* client is constructed twice (outcome1, outcome2); written says whether the file
\* could be opened and written.
generate_test_report(self, cfg, outcome1, outcome2, written) ==
    LET report ==
            [test_report |->
                [model_version |-> "1.0",
                 total_tests_run |-> Len(self.test_results),
                 test_results |-> self.test_results,
                 acceptance_criteria |-> verify_acceptance_criteria(self, cfg, outcome1).ret,
                 status |-> IF AllValues(verify_acceptance_criteria(self, cfg, outcome2).ret)
                            THEN "passed" ELSE "failed"]]
    IN  IF written
        THEN [self |-> self, ret |-> "test_report.json", exc |-> NoExc, file |-> report]
        ELSE [self |-> self, ret |-> None, exc |-> "OSError", file |-> None]

CriterionConfigured == "Azure AI Vision is configured properly"
CriterionAccuracy == "The model shows improved accuracy during testing"

\* AcceptanceCriteriValidator.__init__(config, tester): with no tester given it
\* makes a ModelTester of its own, whose get_client() may raise.  given says
\* whether validator.tester is the caller's tester object or the validator's own.
AcceptanceCriteriValidator_init(cfg, given_tester, outcome) ==
    IF given_tester # None
    THEN [self |-> [tester |-> "given", own_tester |-> None, validation_results |-> EmptyDict],
          ret |-> None, exc |-> NoExc]
    ELSE IF ModelTester_init(cfg, outcome).exc # NoExc
         THEN [self |-> None, ret |-> None, exc |-> ModelTester_init(cfg, outcome).exc]
         ELSE [self |-> [tester |-> "own", own_tester |-> ModelTester_init(cfg, outcome).self,
                         validation_results |-> EmptyDict],
               ret |-> None, exc |-> NoExc]

\* The tester object validator.tester refers to; given is the caller's tester.
TesterOf(self, given) == IF self.tester = "own" THEN self.own_tester ELSE given

_validate_azure_configuration(cfg, outcome) == validate_connection(cfg, outcome).ret

_validate_model_accuracy(self, given) == _check_accuracy_threshold(TesterOf(self, given))

validate_all(self, given, cfg, outcome) ==
    LET validation_results ==
            (CriterionConfigured :> _validate_azure_configuration(cfg, outcome))
            @@ (CriterionAccuracy :> _validate_model_accuracy(self, given))
    IN  [self |-> [self EXCEPT !.validation_results = validation_results],
         ret |-> validation_results,
         exc |-> NoExc]

\* str(n) for 0 <= n <= 9.
Str(n) == Digit(n)

get_validation_report_any(self, given, cfg, outcome) ==
    LET all_valid == validate_all(self, given, cfg, outcome).ret
    IN  [self |-> validate_all(self, given, cfg, outcome).self,
         ret |-> [all_criteria_met |-> \E key \in DOMAIN all_valid : all_valid[key],
                  criteria_results |-> all_valid,
                  summary |-> Str(Cardinality({key \in DOMAIN all_valid : all_valid[key]}))
                              \o "/" \o Str(Cardinality(DOMAIN all_valid)) \o " criteria met"],
         exc |-> NoExc]

get_validation_report(self, given, cfg, outcome) ==
    LET all_valid == validate_all(self, given, cfg, outcome).ret
    IN  [self |-> validate_all(self, given, cfg, outcome).self,
         ret |-> [all_criteria_met |-> AllValues(all_valid),
                  criteria_results |-> all_valid,
                  summary |-> Str(Cardinality({key \in DOMAIN all_valid : all_valid[key]}))
                              \o "/" \o Str(Cardinality(DOMAIN all_valid)) \o " criteria met"],
         exc |-> NoExc]

(***************************************************************************)
(* model_training.py                                                       *)
(***************************************************************************)
\* datetime.now().strftime('%Y%m%d_%H%M%S') when the clock reads t seconds past
\* 2026-01-07 00:00:00, for t below an hour.
strftime_minutes(t) == "20260107_00" \o Digit((t \div 60) \div 10) \o Digit((t \div 60) % 10)

strftime(t) == "20260107_00" \o Format04d((t \div 60) * 100 + (t % 60))

\* d.get(key, []) of a dict.
DictGet(d, key) == IF key \in DOMAIN d THEN d[key] ELSE << >>

PantryModelTrainer_init(cfg, outcome) ==
    IF get_client(cfg, outcome).exc # NoExc
    THEN [self |-> None, ret |-> None, exc |-> get_client(cfg, outcome).exc]
    ELSE [self |-> [training_logs |-> << >>, metrics |-> EmptyDict],
          ret |-> None, exc |-> NoExc]

JobConfig(data, now) ==
    [job_id |-> "pantry-" \o strftime(now),
     model_type |-> "object_detection",
     dataset_split |-> [training_samples |-> Len(DictGet(data, "train")),
                        validation_samples |-> Len(DictGet(data, "validation"))],
     hyperparameters |-> [epochs |-> 50, batch_size |-> 32, learning_rate |-> "0.001",
                          optimizer |-> "adam", loss_function |-> "categorical_crossentropy"],
     augmentation |-> [rotation |-> TRUE, flip |-> TRUE, zoom |-> TRUE]]

create_training_job(self, data, now) ==
    [self |-> [self EXCEPT !.training_logs =
                   Append(@, [event |-> "training_job_created",
                              job_id |-> JobConfig(data, now).job_id])],
     ret |-> JobConfig(data, now),
     exc |-> NoExc]

\* The fixed metrics block, in hundredths.
calculate_training_metrics ==
    [accuracy |-> 92, precision |-> 89, recall |-> 91, f1_score |-> 90,
     validation_accuracy |-> 87, training_loss |-> 15, validation_loss |-> 22]

train_model_unlogged(self, data, now) ==
    LET job_config == JobConfig(data, now)
    IN  [self |-> [training_logs |->
                      Append(self.training_logs,
                             [event |-> "training_completed", job_id |-> job_config.job_id]),
                   metrics |-> calculate_training_metrics],
         ret |-> [job_id |-> job_config.job_id,
                  status |-> "completed",
                  dataset |-> [training_samples |-> job_config.dataset_split.training_samples,
                               validation_samples |-> job_config.dataset_split.validation_samples],
                  metrics |-> calculate_training_metrics,
                  model_checkpoint |-> "models/" \o job_config.job_id \o "_final.model"],
         exc |-> NoExc]

train_model(self, data, now) ==
    LET job_config == create_training_job(self, data, now).ret
        logged == create_training_job(self, data, now).self
    IN  [self |-> [training_logs |->
                      Append(logged.training_logs,
                             [event |-> "training_completed", job_id |-> job_config.job_id]),
                   metrics |-> calculate_training_metrics],
         ret |-> [job_id |-> job_config.job_id,
                  status |-> "completed",
                  dataset |-> [training_samples |-> job_config.dataset_split.training_samples,
                               validation_samples |-> job_config.dataset_split.validation_samples],
                  metrics |-> calculate_training_metrics,
                  model_checkpoint |-> "models/" \o job_config.job_id \o "_final.model"],
         exc |-> NoExc]

save_training_report(self, written) ==
    IF written
    THEN [self |-> self, ret |-> "training_report.json", exc |-> NoExc,
          file |-> [model_name |-> "Pantry Item Recognition Model",
                    version |-> "1.0",
                    metrics |-> self.metrics,
                    logs |-> self.training_logs,
                    status |-> "ready_for_deployment"]]
    ELSE [self |-> self, ret |-> None, exc |-> "OSError", file |-> None]

\* hash(category) % 10 for each category: fixed by the interpreter's hash seed, so
\* any residues can come out; the residues tried are the ten constant assignments
\* and the ten that step by one along the list.
HashResidues ==
    {[j \in DOMAIN PANTRY_ITEMS |-> (k + step * j) % 10] : k \in 0..9, step \in {0, 1}}

\* _calculate_category_metrics(), in hundredths, with residues[j] the residue of
\* the j-th category's hash.
_calculate_category_metrics(residues) ==
    [j \in DOMAIN PANTRY_ITEMS |->
        [category |-> PANTRY_ITEMS[j],
         precision |-> 85 + residues[j],
         recall |-> 87 + residues[j],
         f1_score |-> 86 + residues[j],
         samples |-> 50]]

evaluate_model(self, test_data, residues) ==
    [self |-> [self EXCEPT !.training_logs =
                   Append(@, [event |-> "model_evaluated", accuracy |-> 88])],
     ret |-> [test_samples |-> Len(test_data),
              overall_accuracy |-> 88,
              per_category_metrics |-> _calculate_category_metrics(residues)],
     exc |-> NoExc]

get_model_status(self) ==
    [self |-> self,
     ret |-> [model_name |-> "Pantry Item Recognition Model",
              status |-> "trained",
              accuracy |-> IF "accuracy" \in DOMAIN self.metrics
                           THEN self.metrics.accuracy ELSE 0,
              last_trained |-> IF self.metrics # EmptyDict THEN "now" ELSE "None",
              ready_for_inference |-> TRUE],
     exc |-> NoExc]

(***************************************************************************)
(* setup_pantry_peeper.py.  Each stage function is its try body (the       *)
(* operator named ..._body, whose exc is what the body raised) and the     *)
(* except clause around it; a stage returns [ret, exc, console, ...] with  *)
(* the lines it printed.  The orchestrator's train_model, validate_model   *)
(* and verify_acceptance_criteria are stage_train_model,                   *)
(* stage_validate_model and stage_verify_acceptance_criteria here, the     *)
(* bare names being the methods they call.                                 *)
(***************************************************************************)
required_vars == <<"AZURE_VISION_ENDPOINT", "AZURE_VISION_API_KEY">>

setup_environment(e) ==
    LET missing_vars == SelectSeq(required_vars, LAMBDA var : ~Truthy(getenv(e, var, NoneStr)))
    IN  IF missing_vars # << >>
        THEN [ret |-> FALSE, exc |-> NoExc,
              console |-> <<"Azure AI Vision Setup for Pantry Peeper",
                            "Missing environment variables">>]
        ELSE [ret |-> TRUE, exc |-> NoExc,
              console |-> <<"Azure AI Vision Setup for Pantry Peeper">>]

initialize_config(e) ==
    IF AzureVisionConfig_init(e).exc # NoExc
    THEN [ret |-> None, exc |-> NoExc,
          console |-> <<"[1] Initializing Azure Vision Configuration...",
                        "Failed to initialize configuration">>]
    ELSE [ret |-> AzureVisionConfig_init(e).self, exc |-> NoExc,
          console |-> <<"[1] Initializing Azure Vision Configuration...",
                        "Configuration loaded successfully">>]

\* The default of prepare_training_data's train_ratio, 0.8, in hundredths.
DefaultTrainRatio == 80

\* preparer.prepare_training_data(), the call prepare_data makes.
prepare_training_data_default == prepare_training_data(DefaultTrainRatio)

create_dataset_manifest ==
    [dataset_name |-> "Pantry Item Recognition Dataset",
     version |-> "1.0",
     categories |-> PANTRY_ITEMS,
     total_categories |-> Len(PANTRY_ITEMS),
     image_size |-> <<224, 224>>,
     preprocessing |-> [resize |-> TRUE, normalization |-> "0-1 range", augmentation |-> TRUE],
     split_ratio |-> [training |-> "0.8", validation |-> "0.2"]]

\* What can go wrong on the disk while the data is prepared: nothing, the
\* preparer's first mkdir, or the write of the manifest after the split was made.
PrepareFailures == {"none", "mkdir", "manifest"}

prepare_data_body(disk, failure) ==
    IF failure = "mkdir"
    THEN [ret |-> None, exc |-> "OSError", fs |-> disk, file |-> None]
    ELSE IF failure = "manifest"
         THEN [ret |-> None, exc |-> "OSError",
               fs |-> disk \cup prepare_training_data_default.files, file |-> None]
         ELSE [ret |-> prepare_training_data_default.ret, exc |-> NoExc,
               fs |-> disk \cup prepare_training_data_default.files,
               file |-> create_dataset_manifest]

prepare_data(disk, failure) ==
    Bind(prepare_data_body(disk, failure), LAMBDA body :
      IF body.exc # NoExc
      THEN [ret |-> None, exc |-> NoExc, fs |-> body.fs, file |-> None,
            console |-> <<"[2] Preparing Training Data...", "Failed to prepare data">>]
      ELSE [ret |-> body.ret, exc |-> NoExc, fs |-> body.fs, file |-> body.file,
            console |-> <<"[2] Preparing Training Data...", "Dataset prepared successfully">>])

\* The try body of the orchestrator's train_model: the trainer is built, a job is
\* created, train_model (which creates a job itself) is run and the report saved.
train_model_body(cfg, data, outcome, now1, now2, written) ==
    Bind(PantryModelTrainer_init(cfg, outcome), LAMBDA built :
      IF built.exc # NoExc
      THEN [ret |-> None, exc |-> built.exc, trainer |-> None, file |-> None]
      ELSE Bind(create_training_job(built.self, data, now1), LAMBDA created :
             Bind(train_model(created.self, data, now2), LAMBDA trained :
               Bind(save_training_report(trained.self, written), LAMBDA saved :
                 IF saved.exc # NoExc
                 THEN [ret |-> None, exc |-> saved.exc, trainer |-> trained.self,
                       file |-> None]
                 ELSE [ret |-> trained.ret, exc |-> NoExc, trainer |-> trained.self,
                       file |-> saved.file]))))

stage_train_model_uncaught(cfg, data, outcome, now1, now2, written) ==
    Bind(train_model_body(cfg, data, outcome, now1, now2, written), LAMBDA body :
      [ret |-> body.ret, exc |-> body.exc, trainer |-> body.trainer, file |-> body.file,
       console |-> IF body.exc # NoExc THEN <<"[3] Training Model...">>
                   ELSE <<"[3] Training Model...", "Model training completed">>])

stage_train_model(cfg, data, outcome, now1, now2, written) ==
    Bind(train_model_body(cfg, data, outcome, now1, now2, written), LAMBDA body :
      IF body.exc # NoExc
      THEN [ret |-> None, exc |-> NoExc, trainer |-> body.trainer, file |-> None,
            console |-> <<"[3] Training Model...", "Failed to train model">>]
      ELSE [ret |-> body.ret, exc |-> NoExc, trainer |-> body.trainer, file |-> body.file,
            console |-> <<"[3] Training Model...", "Model training completed">>])

Min(a, b) == IF a <= b THEN a ELSE b

\* seq[:n]
FirstN(seq, n) == SubSeq(seq, 1, Min(n, Len(seq)))

\* The try body of validate_model.
validate_model_body(cfg, data, outcome, outcome1, outcome2, written) ==
    Bind(ModelTester_init(cfg, outcome), LAMBDA built :
      IF built.exc # NoExc
      THEN [ret |-> None, exc |-> built.exc, tester |-> None, file |-> None]
      ELSE Bind(FirstN(DictGet(data, "validation"), 10), LAMBDA images :
             Bind(IF images = << >>
                  THEN [self |-> built.self, ret |-> EmptyDict, exc |-> NoExc]
                  ELSE run_validation_suite(built.self, images), LAMBDA suite :
               Bind(test_performance(suite.self, 100), LAMBDA performance :
                 Bind(generate_test_report(performance.self, cfg, outcome1, outcome2,
                                           written), LAMBDA reported :
                   IF reported.exc # NoExc
                   THEN [ret |-> None, exc |-> reported.exc, tester |-> reported.self,
                         file |-> None]
                   ELSE [ret |-> [validation |-> suite.ret, performance |-> performance.ret],
                         exc |-> NoExc, tester |-> reported.self,
                         file |-> reported.file])))))

stage_validate_model(cfg, data, outcome, outcome1, outcome2, written) ==
    Bind(validate_model_body(cfg, data, outcome, outcome1, outcome2, written), LAMBDA body :
      IF body.exc # NoExc
      THEN [ret |-> None, exc |-> NoExc, tester |-> body.tester, file |-> None,
            console |-> <<"[4] Validating Model...", "Failed to validate model">>]
      ELSE [ret |-> body.ret, exc |-> NoExc, tester |-> body.tester, file |-> body.file,
            console |-> <<"[4] Validating Model...", "Validation completed">>])

\* The try body of the orchestrator's verify_acceptance_criteria: the validator is
\* built from the config alone, so it makes a tester of its own.
verify_acceptance_criteria_body(cfg, outcome, outcome1) ==
    Bind(AcceptanceCriteriValidator_init(cfg, None, outcome), LAMBDA built :
      IF built.exc # NoExc
      THEN [ret |-> None, exc |-> built.exc, validator |-> None]
      ELSE Bind(get_validation_report(built.self, None, cfg, outcome1), LAMBDA reported :
             [ret |-> reported.ret, exc |-> NoExc, validator |-> reported.self]))

stage_verify_acceptance_criteria(cfg, outcome, outcome1) ==
    Bind(verify_acceptance_criteria_body(cfg, outcome, outcome1), LAMBDA body :
      IF body.exc # NoExc
      THEN [ret |-> None, exc |-> NoExc, validator |-> None,
            console |-> <<"[5] Verifying Acceptance Criteria...",
                          "Failed to verify acceptance criteria">>]
      ELSE [ret |-> body.ret, exc |-> NoExc, validator |-> body.validator,
            console |-> <<"[5] Verifying Acceptance Criteria...", "Validation Report:">>])

\* acceptance_report and acceptance_report.get('all_criteria_met')
ReportSaysAllMet(report) ==
    /\ report # None
    /\ report # EmptyDict
    /\ "all_criteria_met" \in DOMAIN report
    /\ report.all_criteria_met

\* x if x else {}
OrEmptyDict(x) == IF x # None /\ x # EmptyDict THEN x ELSE EmptyDict

generate_summary_report(cfg, result, validation, report) ==
    [ret |-> [setup_date |-> "2026-01-07",
              project |-> "Pantry Peeper",
              service |-> "Azure AI Vision",
              configuration |-> IF cfg # None THEN get_config_dict(cfg) ELSE EmptyDict,
              training |-> OrEmptyDict(result),
              validation |-> OrEmptyDict(validation),
              acceptance_criteria |-> OrEmptyDict(report),
              overall_status |-> IF ReportSaysAllMet(report) THEN "SUCCESS" ELSE "IN PROGRESS"],
     exc |-> NoExc,
     console |-> <<"SETUP SUMMARY", "Summary saved to: setup_summary.json">>]

\* main()'s checks of what the stages return: where it goes next, the status it
\* exits with if it exits, and what it prints.
AfterSetupEnvironment(ok) ==
    IF ~ok THEN [pc |-> "exited", exit_status |-> 1, console |-> <<"Environment setup failed">>]
    ELSE [pc |-> "configure", exit_status |-> None, console |-> << >>]

AfterInitializeConfig(cfg) ==
    IF cfg = None
    THEN [pc |-> "exited", exit_status |-> 1,
          console |-> <<"Configuration initialization failed">>]
    ELSE [pc |-> "prepare", exit_status |-> None, console |-> << >>]

AfterPrepareData_continues(data) ==
    [pc |-> "train", exit_status |-> None, console |-> << >>]

AfterPrepareData(data) ==
    IF data = None \/ data = EmptyDict
    THEN [pc |-> "exited", exit_status |-> 1, console |-> <<"Data preparation failed">>]
    ELSE [pc |-> "train", exit_status |-> None, console |-> << >>]

AfterTrainModel_retries(result) ==
    IF result = None \/ result = EmptyDict
    THEN [pc |-> "train", exit_status |-> None, console |-> <<"Model training incomplete">>]
    ELSE [pc |-> "validate", exit_status |-> None, console |-> << >>]

AfterTrainModel(result) ==
    IF result = None \/ result = EmptyDict
    THEN [pc |-> "validate", exit_status |-> None, console |-> <<"Model training incomplete">>]
    ELSE [pc |-> "validate", exit_status |-> None, console |-> << >>]

AfterValidateModel(result) ==
    IF result = None \/ result = EmptyDict
    THEN [pc |-> "verify", exit_status |-> None, console |-> <<"Model validation incomplete">>]
    ELSE [pc |-> "verify", exit_status |-> None, console |-> << >>]

FinalStatus_report_exists(report) ==
    IF report # None
    THEN [pc |-> "exited", exit_status |-> 0, console |-> <<"Setup completed successfully!">>]
    ELSE [pc |-> "exited", exit_status |-> 1, console |-> <<"Setup completed with issues.">>]

FinalStatus(report) ==
    IF ReportSaysAllMet(report)
    THEN [pc |-> "exited", exit_status |-> 0, console |-> <<"Setup completed successfully!">>]
    ELSE [pc |-> "exited", exit_status |-> 1, console |-> <<"Setup completed with issues.">>]

\* An exception no except clause caught ends the interpreter with status 1.
Uncaught == [pc |-> "exited", exit_status |-> 1, console |-> <<"Traceback (most recent call last):">>]

(***************************************************************************)
(* SpecConfig: the configuration object called directly, as the unit tests *)
(* do, in every environment.                                               *)
(***************************************************************************)
InitEnv ==
    /\ env \in Environments
    /\ sdk_available \in BOOLEAN

InitDataIdle ==
    /\ train_ratio = 80
    /\ prep_pc = "idle"
    /\ cat_idx = 1
    /\ img_idx = 0
    /\ train_files = << >>
    /\ val_files = << >>
    /\ fs = {}

InitObjectsNone ==
    /\ tester = None
    /\ trainer = None
    /\ validator = None
    /\ clock = 0

InitMainIdle ==
    /\ pc = "idle"
    /\ exit_status = None
    /\ training_data = None
    /\ training_result = None
    /\ validation_result = None
    /\ acceptance_report = None
    /\ reports = EmptyDict
    /\ console = << >>

InitConfig ==
    /\ InitEnv
    /\ config = None
    /\ call = NoCall
    /\ InitDataIdle
    /\ InitObjectsNone
    /\ InitMainIdle

ConstructConfig ==
    /\ config = None
    /\ LET r == AzureVisionConfig_init(env)
       IN  /\ config' = r.self
           /\ call' = [op |-> "AzureVisionConfig", ret |-> r.ret, exc |-> r.exc]
    /\ UNCHANGED <<env, sdk_available, dataVars, objVars, mainVars>>

GetClient ==
    /\ config # None
    /\ \E outcome \in ClientOutcomes(sdk_available) :
         LET r == get_client(config, outcome)
         IN  /\ config' = r.self
             /\ call' = [op |-> "get_client", outcome |-> outcome,
                         ret |-> r.ret, exc |-> r.exc]
    /\ UNCHANGED <<env, sdk_available, dataVars, objVars, mainVars>>

ValidateConnection ==
    /\ config # None
    /\ \E outcome \in ClientOutcomes(sdk_available) :
         LET r == validate_connection(config, outcome)
         IN  /\ config' = r.self
             /\ call' = [op |-> "validate_connection", outcome |-> outcome,
                         ret |-> r.ret, exc |-> r.exc]
    /\ UNCHANGED <<env, sdk_available, dataVars, objVars, mainVars>>

GetConfigDict ==
    /\ config # None
    /\ call' = [op |-> "get_config_dict", ret |-> get_config_dict(config), exc |-> NoExc]
    /\ UNCHANGED <<env, sdk_available, config, dataVars, objVars, mainVars>>

NextConfig ==
    \/ ConstructConfig
    \/ GetClient
    \/ ValidateConnection
    \/ GetConfigDict

SpecConfig == InitConfig /\ [][NextConfig]_vars

(***************************************************************************)
(* SpecData: prepare_training_data called with each ratio of RatioLiterals,*)
(* one iteration of its inner loop per step.                               *)
(***************************************************************************)
\* The decimal literals (in hundredths) the ratio is drawn from.
RatioLiterals == {0, 30, 50, 58, 80, 100}

InitData ==
    /\ env = << >>
    /\ sdk_available = FALSE
    /\ config = None
    /\ call = NoCall
    /\ train_ratio \in RatioLiterals
    /\ prep_pc = "loop"
    /\ cat_idx = 1
    /\ img_idx = 0
    /\ train_files = << >>
    /\ val_files = << >>
    /\ fs = {}
    /\ InitObjectsNone
    /\ InitMainIdle

PrepareLoopStep ==
    /\ prep_pc = "loop"
    /\ cat_idx <= Len(PANTRY_ITEMS)
    /\ LET after == LoopBody([train_files |-> train_files, val_files |-> val_files, fs |-> fs],
                             PANTRY_ITEMS[cat_idx], img_idx, train_ratio)
       IN  /\ train_files' = after.train_files
           /\ val_files' = after.val_files
           /\ fs' = after.fs
    /\ IF img_idx + 1 < num_images
       THEN /\ img_idx' = img_idx + 1
            /\ cat_idx' = cat_idx
       ELSE /\ img_idx' = 0
            /\ cat_idx' = cat_idx + 1
    /\ UNCHANGED <<configVars, call, train_ratio, prep_pc, objVars, mainVars>>

PrepareReturn ==
    /\ prep_pc = "loop"
    /\ cat_idx > Len(PANTRY_ITEMS)
    /\ prep_pc' = "returned"
    /\ call' = [op |-> "prepare_training_data", arg |-> train_ratio,
                ret |-> [train |-> train_files, validation |-> val_files], exc |-> NoExc]
    /\ UNCHANGED <<configVars, train_ratio, cat_idx, img_idx, train_files, val_files, fs,
                   objVars, mainVars>>

NextData ==
    \/ PrepareLoopStep
    \/ PrepareReturn

SpecData == InitData /\ [][NextData]_vars

(***************************************************************************)
(* SpecTester: a ModelTester built on a valid configuration and called     *)
(* directly, as the unit tests do.                                         *)
(***************************************************************************)
ImagePaths == {"a.jpg", "b.jpg"}
\* The longest list of paths a validation suite is run on.
MaxSuiteLen == 2
\* The most results the tester is let accumulate.
MaxResults == 4

SeqsUpTo(S, n) == UNION {[1..k -> S] : k \in 0..n}

ValidEnv ==
    ("AZURE_VISION_ENDPOINT" :> "https://a.cognitiveservices.azure.com/")
    @@ ("AZURE_VISION_API_KEY" :> "key-1")

InitTester ==
    /\ env = ValidEnv
    /\ sdk_available \in BOOLEAN
    /\ config = AzureVisionConfig_init(ValidEnv).self
    /\ call = NoCall
    /\ InitDataIdle
    /\ tester = ModelTester_init(config, IF sdk_available THEN "client" ELSE "mock").self
    /\ trainer = None
    /\ validator = None
    /\ clock = 0
    /\ InitMainIdle

TestInference ==
    /\ Len(tester.test_results) < MaxResults
    /\ \E image_path \in ImagePaths :
         LET r == test_inference(tester, image_path)
         IN  /\ tester' = r.self
             /\ call' = [op |-> "test_inference", arg |-> image_path,
                         ret |-> r.ret, exc |-> r.exc]
    /\ UNCHANGED <<configVars, dataVars, trainer, validator, clock, mainVars>>

RunValidationSuite ==
    /\ \E test_images \in SeqsUpTo(ImagePaths, MaxSuiteLen) :
         /\ Len(tester.test_results) + Len(test_images) <= MaxResults
         /\ LET r == run_validation_suite(tester, test_images)
            IN  /\ tester' = IF r.exc = NoExc THEN r.self ELSE tester
                /\ call' = [op |-> "run_validation_suite", arg |-> test_images,
                            ret |-> r.ret, exc |-> r.exc]
    /\ UNCHANGED <<configVars, dataVars, trainer, validator, clock, mainVars>>

TestPerformance ==
    /\ \E r \in {test_performance(tester, 100)} :
         /\ tester' = r.self
         /\ call' = [op |-> "test_performance", ret |-> r.ret, exc |-> r.exc]
    /\ UNCHANGED <<configVars, dataVars, trainer, validator, clock, mainVars>>

CheckAccuracyThreshold ==
    /\ call' = [op |-> "_check_accuracy_threshold", ret |-> _check_accuracy_threshold(tester),
                exc |-> NoExc]
    /\ UNCHANGED <<configVars, dataVars, objVars, mainVars>>

VerifyAcceptanceCriteria ==
    /\ \E outcome \in ClientOutcomes(sdk_available) :
         \E r \in {verify_acceptance_criteria(tester, config, outcome)} :
           /\ tester' = r.self
           /\ call' = [op |-> "verify_acceptance_criteria", outcome |-> outcome,
                       ret |-> r.ret, exc |-> r.exc]
    /\ UNCHANGED <<configVars, dataVars, trainer, validator, clock, mainVars>>

\* The report file written is kept in the call record.
GenerateTestReport ==
    /\ \E outcome1 \in ClientOutcomes(sdk_available),
          outcome2 \in ClientOutcomes(sdk_available), written \in BOOLEAN :
         \E r \in {generate_test_report(tester, config, outcome1, outcome2, written)} :
           /\ tester' = r.self
           /\ call' = [op |-> "generate_test_report", ret |-> r.ret, exc |-> r.exc,
                       file |-> r.file]
    /\ UNCHANGED <<configVars, dataVars, trainer, validator, clock, mainVars>>

\* AcceptanceCriteriValidator(config, tester) or AcceptanceCriteriValidator(config).
ConstructValidator ==
    /\ validator = None
    /\ \E given \in {tester, None}, outcome \in ClientOutcomes(sdk_available) :
         \E r \in {AcceptanceCriteriValidator_init(config, given, outcome)} :
           /\ validator' = r.self
           /\ call' = [op |-> "AcceptanceCriteriValidator", ret |-> r.ret, exc |-> r.exc]
    /\ UNCHANGED <<configVars, dataVars, tester, trainer, clock, mainVars>>

ValidateAll ==
    /\ validator # None
    /\ \E outcome \in ClientOutcomes(sdk_available) :
         \E r \in {validate_all(validator, tester, config, outcome)} :
           /\ validator' = r.self
           /\ call' = [op |-> "validate_all", ret |-> r.ret, exc |-> r.exc]
    /\ UNCHANGED <<configVars, dataVars, tester, trainer, clock, mainVars>>

GetValidationReport ==
    /\ validator # None
    /\ \E outcome \in ClientOutcomes(sdk_available) :
         \E r \in {get_validation_report(validator, tester, config, outcome)} :
           /\ validator' = r.self
           /\ call' = [op |-> "get_validation_report", ret |-> r.ret, exc |-> r.exc]
    /\ UNCHANGED <<configVars, dataVars, tester, trainer, clock, mainVars>>

NextTester ==
    \/ TestInference
    \/ RunValidationSuite
    \/ TestPerformance
    \/ CheckAccuracyThreshold
    \/ VerifyAcceptanceCriteria
    \/ GenerateTestReport
    \/ ConstructValidator
    \/ ValidateAll
    \/ GetValidationReport

SpecTester == InitTester /\ [][NextTester]_vars

(***************************************************************************)
(* SpecTrainer: a PantryModelTrainer built on a valid configuration and    *)
(* called directly, as the unit tests do.                                  *)
(***************************************************************************)
\* The latest reading of the clock, in seconds after it was first read.
MaxClock == 2

\* The most entries the trainer's log is let grow to.
MaxLogs == 4

\* The splits the trainer is given.
Splits ==
    {EmptyDict,
     [train |-> <<"img1.jpg">>, validation |-> <<"img2.jpg">>],
     [train |-> <<"img1.jpg", "img2.jpg">>, validation |-> << >>]}

InitTrainer ==
    /\ env = ValidEnv
    /\ sdk_available \in BOOLEAN
    /\ config = AzureVisionConfig_init(ValidEnv).self
    /\ call = NoCall
    /\ InitDataIdle
    /\ tester = None
    /\ trainer = PantryModelTrainer_init(config, IF sdk_available THEN "client" ELSE "mock").self
    /\ validator = None
    /\ clock = 0
    /\ InitMainIdle

CreateTrainingJob ==
    /\ Len(trainer.training_logs) + 1 <= MaxLogs
    /\ \E data \in Splits, now \in clock..MaxClock :
         \E r \in {create_training_job(trainer, data, now)} :
           /\ trainer' = r.self
           /\ clock' = now
           /\ call' = [op |-> "create_training_job", arg |-> data, now |-> now,
                       ret |-> r.ret, exc |-> r.exc]
    /\ UNCHANGED <<configVars, dataVars, tester, validator, mainVars>>

TrainModel ==
    /\ Len(trainer.training_logs) + 2 <= MaxLogs
    /\ \E data \in Splits, now \in clock..MaxClock :
         \E r \in {train_model(trainer, data, now)} :
           /\ trainer' = r.self
           /\ clock' = now
           /\ call' = [op |-> "train_model", arg |-> data, now |-> now,
                       ret |-> r.ret, exc |-> r.exc]
    /\ UNCHANGED <<configVars, dataVars, tester, validator, mainVars>>

EvaluateModel ==
    /\ Len(trainer.training_logs) + 1 <= MaxLogs
    /\ \E test_data \in {<<"img2.jpg">>, << >>}, residues \in HashResidues :
         \E r \in {evaluate_model(trainer, test_data, residues)} :
           /\ trainer' = r.self
           /\ call' = [op |-> "evaluate_model", arg |-> test_data,
                       ret |-> r.ret, exc |-> r.exc]
    /\ UNCHANGED <<configVars, dataVars, tester, validator, clock, mainVars>>

GetModelStatus ==
    /\ \E r \in {get_model_status(trainer)} :
         /\ trainer' = r.self
         /\ call' = [op |-> "get_model_status", ret |-> r.ret, exc |-> r.exc]
    /\ UNCHANGED <<configVars, dataVars, tester, validator, clock, mainVars>>

\* The report file written is kept in the call record.
SaveTrainingReport ==
    /\ \E written \in BOOLEAN :
         \E r \in {save_training_report(trainer, written)} :
           /\ trainer' = r.self
           /\ call' = [op |-> "save_training_report", ret |-> r.ret, exc |-> r.exc,
                       file |-> r.file]
    /\ UNCHANGED <<configVars, dataVars, tester, validator, clock, mainVars>>

NextTrainer ==
    \/ CreateTrainingJob
    \/ TrainModel
    \/ EvaluateModel
    \/ GetModelStatus
    \/ SaveTrainingReport

SpecTrainer == InitTrainer /\ [][NextTrainer]_vars

(***************************************************************************)
(* SpecMain: one run of main() in every environment, one stage per step.   *)
(* The clock is read when a training job is created and never runs         *)
(* backwards; tester, trainer and validator hold the object the stage of   *)
(* that name built in this run.                                            *)
(***************************************************************************)
SummaryFile == "setup_summary.json"

\* The files of the working directory after content is written to name.
WriteFile(files, name, content) ==
    IF content = None THEN files ELSE (name :> content) @@ files

InitMain ==
    /\ InitEnv
    /\ config = None
    /\ call = NoCall
    /\ InitDataIdle
    /\ InitObjectsNone
    /\ pc = "setup"
    /\ exit_status = None
    /\ training_data = None
    /\ training_result = None
    /\ validation_result = None
    /\ acceptance_report = None
    /\ reports = EmptyDict
    /\ console = << >>

MainSetupEnvironment ==
    /\ pc = "setup"
    /\ \E r \in {setup_environment(env)} :
         \E next \in {AfterSetupEnvironment(r.ret)} :
           /\ pc' = next.pc
           /\ exit_status' = next.exit_status
           /\ console' = console \o r.console \o next.console
    /\ UNCHANGED <<configVars, call, dataVars, objVars, training_data, training_result,
                   validation_result, acceptance_report, reports>>

MainInitializeConfig ==
    /\ pc = "configure"
    /\ \E r \in {initialize_config(env)} :
         \E next \in {AfterInitializeConfig(r.ret)} :
           /\ config' = r.ret
           /\ pc' = next.pc
           /\ exit_status' = next.exit_status
           /\ console' = console \o r.console \o next.console
    /\ UNCHANGED <<env, sdk_available, call, dataVars, objVars, training_data, training_result,
                   validation_result, acceptance_report, reports>>

MainPrepareData ==
    /\ pc = "prepare"
    /\ \E failure \in PrepareFailures :
         \E r \in {prepare_data(fs, failure)} :
           \E next \in {AfterPrepareData(r.ret)} :
             /\ training_data' = r.ret
             /\ fs' = r.fs
             /\ reports' = WriteFile(reports, "dataset_manifest.json", r.file)
             /\ pc' = next.pc
             /\ exit_status' = next.exit_status
             /\ console' = console \o r.console \o next.console
    /\ UNCHANGED <<configVars, call, train_ratio, prep_pc, cat_idx, img_idx, train_files,
                   val_files, objVars, training_result, validation_result, acceptance_report>>

MainTrainModel ==
    /\ pc = "train"
    /\ \E outcome \in ClientOutcomes(sdk_available), written \in BOOLEAN,
          now1 \in clock..MaxClock :
         \E now2 \in now1..MaxClock :
           \E r \in {stage_train_model(config, training_data, outcome, now1, now2, written)} :
             \E next \in {IF r.exc # NoExc THEN Uncaught ELSE AfterTrainModel(r.ret)} :
               /\ training_result' = r.ret
               /\ trainer' = r.trainer
               /\ clock' = IF r.trainer = None THEN clock ELSE now2
               /\ reports' = WriteFile(reports, "training_report.json", r.file)
               /\ pc' = next.pc
               /\ exit_status' = next.exit_status
               /\ console' = console \o r.console \o next.console
    /\ UNCHANGED <<configVars, call, dataVars, tester, validator, training_data,
                   validation_result, acceptance_report>>

MainValidateModel ==
    /\ pc = "validate"
    /\ \E outcome \in ClientOutcomes(sdk_available), outcome1 \in ClientOutcomes(sdk_available),
          outcome2 \in ClientOutcomes(sdk_available), written \in BOOLEAN :
         \E r \in {stage_validate_model(config, training_data, outcome, outcome1, outcome2,
                                        written)} :
           \E next \in {AfterValidateModel(r.ret)} :
             /\ validation_result' = r.ret
             /\ tester' = r.tester
             /\ reports' = WriteFile(reports, "test_report.json", r.file)
             /\ pc' = next.pc
             /\ exit_status' = next.exit_status
             /\ console' = console \o r.console \o next.console
    /\ UNCHANGED <<configVars, call, dataVars, trainer, validator, clock, training_data,
                   training_result, acceptance_report>>

MainVerifyAcceptance ==
    /\ pc = "verify"
    /\ \E outcome \in ClientOutcomes(sdk_available), outcome1 \in ClientOutcomes(sdk_available) :
         \E r \in {stage_verify_acceptance_criteria(config, outcome, outcome1)} :
           /\ acceptance_report' = r.ret
           /\ validator' = r.validator
           /\ pc' = "summarize"
           /\ console' = console \o r.console
    /\ UNCHANGED <<configVars, call, dataVars, tester, trainer, clock, exit_status,
                   training_data, training_result, validation_result, reports>>

MainGenerateSummary ==
    /\ pc = "summarize"
    /\ \E r \in {generate_summary_report(config, training_result, validation_result,
                                         acceptance_report)} :
         /\ reports' = WriteFile(reports, SummaryFile, r.ret)
         /\ pc' = "final"
         /\ console' = console \o r.console
    /\ UNCHANGED <<configVars, call, dataVars, objVars, exit_status, training_data,
                   training_result, validation_result, acceptance_report>>

MainFinalStatus ==
    /\ pc = "final"
    /\ \E next \in {FinalStatus(acceptance_report)} :
         /\ pc' = next.pc
         /\ exit_status' = next.exit_status
         /\ console' = console \o next.console
    /\ UNCHANGED <<configVars, call, dataVars, objVars, training_data, training_result,
                   validation_result, acceptance_report, reports>>

NextMain ==
    \/ MainSetupEnvironment
    \/ MainInitializeConfig
    \/ MainPrepareData
    \/ MainTrainModel
    \/ MainValidateModel
    \/ MainVerifyAcceptance
    \/ MainGenerateSummary
    \/ MainFinalStatus

SpecMain == InitMain /\ [][NextMain]_vars

\* The interpreter runs main() to its exit: a stage that can run does run.
FairSpecMain == SpecMain /\ WF_vars(NextMain)

(***************************************************************************)
(* Claims about the configuration object                                   *)
(***************************************************************************)
Missing(name) == name \notin DOMAIN env \/ env[name] = ""

\* C5: constructing the configuration raises the configuration error (ValueError)
\* exactly when AZURE_VISION_ENDPOINT or AZURE_VISION_API_KEY is unset or empty and
\* otherwise yields an object; when it succeeds with AZURE_VISION_PROJECT unset the
\* project name is "pantry-peeper".
C5_ConstructionFailsIffCredentialMissing ==
    call.op = "AzureVisionConfig" =>
        /\ (call.exc = "ValueError") <=>
               (Missing("AZURE_VISION_ENDPOINT") \/ Missing("AZURE_VISION_API_KEY"))
        /\ call.exc \in {"ValueError", NoExc}
        /\ (call.exc = "ValueError") <=> (config = None)
        /\ (call.exc = NoExc /\ "AZURE_VISION_PROJECT" \notin DOMAIN env)
               => config.project_name = "pantry-peeper"
        /\ call.exc = NoExc =>
               /\ config.endpoint = env["AZURE_VISION_ENDPOINT"]
               /\ config.api_key = env["AZURE_VISION_API_KEY"]

\* The constructor has refused an environment whose endpoint is set and whose key
\* is the empty string.
C5_Witness_EmptyKeyRefused ==
    /\ call.op = "AzureVisionConfig"
    /\ call.exc = "ValueError"
    /\ ~Missing("AZURE_VISION_ENDPOINT")
    /\ "AZURE_VISION_API_KEY" \in DOMAIN env
    /\ env["AZURE_VISION_API_KEY"] = ""

\* C6: validate_connection never raises; it returns TRUE when the client (real or
\* mock) was constructed and FALSE when the constructor raised, and it leaves the
\* stored endpoint, key and project name as they were.
C6_ValidateConnectionNeverRaises ==
    /\ [](call.op = "validate_connection" =>
            /\ call.exc = NoExc
            /\ call.ret = (call.outcome # "raise"))
    /\ [][call'.op = "validate_connection" => config' = config]_vars

\* validate_connection has returned FALSE after the real client's constructor raised.
C6_Witness_FailureBecomesFalse ==
    /\ call.op = "validate_connection"
    /\ call.outcome = "raise"
    /\ call.ret = FALSE
    /\ call.exc = NoExc

(***************************************************************************)
(* Claims about prepare_training_data                                      *)
(***************************************************************************)
\* How many entries of seq are files of the c-th category.
CountOfCategory(seq, c) ==
    Cardinality({j \in 1..Len(seq) :
                    \E i \in 0..(num_images - 1) : seq[j] = FilePath(PANTRY_ITEMS[c], i)})

\* How many entries of seq are the path p.
Occurrences(seq, p) == Cardinality({j \in 1..Len(seq) : seq[j] = p})

\* C8 as amended: with train_ratio = 0.8 the returned split has 750 entries (15
\* categories of 50), 600 in train and 150 in validation, 40 train and 10
\* validation entries of each of the 15 categories.
C8_DefaultRatioCounts ==
    (prep_pc = "returned" /\ train_ratio = 80) =>
        /\ Len(PANTRY_ITEMS) = 15
        /\ Len(call.ret.train) + Len(call.ret.validation) = 750
        /\ Len(call.ret.train) = 600
        /\ Len(call.ret.validation) = 150
        /\ \A c \in 1..Len(PANTRY_ITEMS) :
              /\ CountOfCategory(call.ret.train, c) = 40
              /\ CountOfCategory(call.ret.validation, c) = 10

\* C8 as stated: with train_ratio = 0.8 the returned split has exactly 600 entries,
\* 480 in train and 120 in validation, 40 train and 10 validation per category.
C8_Original_600_480_120 ==
    (prep_pc = "returned" /\ train_ratio = 80) =>
        /\ Len(call.ret.train) + Len(call.ret.validation) = 600
        /\ Len(call.ret.train) = 480
        /\ Len(call.ret.validation) = 120
        /\ \A c \in 1..Len(PANTRY_ITEMS) :
              /\ CountOfCategory(call.ret.train, c) = 40
              /\ CountOfCategory(call.ret.validation, c) = 10

\* prepare_training_data(0.8) has returned, with 40 files of "flour" in train.
C8_Witness_DefaultRatioReturned ==
    /\ prep_pc = "returned"
    /\ call.op = "prepare_training_data"
    /\ call.arg = 80
    /\ CountOfCategory(call.ret.train, 1) = 40
    /\ Len(call.ret.validation) > 0

\* floor(50 * ratio) for the ratio the literal denotes.
FloorSplit(ratio) == (num_images * ratio) \div RatioDen

\* C9: for every ratio in [0, 1] the returned split is a partition of the generated
\* paths (each in exactly one of train and validation, once), the indices below
\* floor(50 * ratio) of each category are in train and the rest in validation, and
\* both lists are in category-then-index order.
C9_PartitionAtFloorOfRatio ==
    prep_pc = "returned" =>
        /\ \A j \in 1..Len(Iterations) :
              Occurrences(call.ret.train, PathOf(Iterations[j]))
                  + Occurrences(call.ret.validation, PathOf(Iterations[j])) = 1
        /\ call.ret.train =
              PathsOf(SelectSeq(Iterations, LAMBDA it : it.i < FloorSplit(train_ratio)))
        /\ call.ret.validation =
              PathsOf(SelectSeq(Iterations, LAMBDA it : ~(it.i < FloorSplit(train_ratio))))

(***************************************************************************)
(* Claims about the tester                                                 *)
(***************************************************************************)
\* C10: run_validation_suite([]) raises nothing and returns a summary with accuracy
\* 0, correct_predictions 0, total_predictions 0 and passes_threshold false, and it
\* leaves the tester's stored results as they were.
C10_EmptySuiteReturnsZeroAccuracy ==
    /\ []((call.op = "run_validation_suite" /\ call.arg = << >>) =>
            /\ call.exc = NoExc
            /\ call.ret.summary.accuracy.num = 0
            /\ call.ret.summary.correct_predictions = 0
            /\ call.ret.summary.total_predictions = 0
            /\ call.ret.summary.passes_threshold = FALSE
            /\ call.ret.results = << >>)
    /\ [][(call'.op = "run_validation_suite" /\ call'.arg = << >>) =>
            tester'.test_results = tester.test_results]_vars

\* The suite has been run on the empty list by a tester that already held results.
C10_Witness_EmptySuiteAfterResults ==
    /\ call.op = "run_validation_suite"
    /\ call.arg = << >>
    /\ call.exc = NoExc
    /\ call.ret.summary.total_predictions = 0
    /\ Len(tester.test_results) > 0

(***************************************************************************)
(* Claims about a run of main()                                            *)
(***************************************************************************)
Printed(line) == \E k \in DOMAIN console : console[k] = line

SummaryWritten == SummaryFile \in DOMAIN reports

\* C1: when main() has exited, the exit status is 0 if the acceptance report exists
\* and says all criteria are met and 1 in every other case, and a summary that was
\* written says "SUCCESS" exactly when the exit status is 0 (and a run that exits 0
\* has written one).
C1_ExitZeroIffAllCriteriaMet ==
    pc = "exited" =>
        /\ exit_status \in {0, 1}
        /\ exit_status = 0 <=>
              IF acceptance_report = None THEN FALSE ELSE acceptance_report.all_criteria_met
        /\ exit_status = 0 => SummaryWritten
        /\ SummaryWritten => (reports[SummaryFile].overall_status = "SUCCESS" <=> exit_status = 0)

\* A run that reached the final status with a report whose criteria are not all met.
C1_Witness_ReportUnmetExitsOne ==
    /\ pc = "exited"
    /\ exit_status = 1
    /\ acceptance_report # None
    /\ ~acceptance_report.all_criteria_met
    /\ SummaryWritten
    /\ reports[SummaryFile].overall_status = "IN PROGRESS"

\* C2: in an end-to-end run (validation suite run, test report and summary
\* written) the summary's overall status is "SUCCESS" if and only if the four
\* criteria of the tester that ran the suite, as test_report.json records them,
\* are all true.
C2_SuccessIffTesterCriteriaTrue ==
    (/\ pc = "exited"
     /\ SummaryWritten
     /\ training_result # None
     /\ validation_result # None
     /\ acceptance_report # None
     /\ "test_report.json" \in DOMAIN reports)
    => (reports[SummaryFile].overall_status = "SUCCESS"
           <=> AllValues(reports["test_report.json"].test_report.acceptance_criteria))

ConfigureFailed ==
    Printed("Missing environment variables") \/ Printed("Failed to initialize configuration")

PrepareDataFailed == Printed("Failed to prepare data")

LaterStageLines ==
    {"[3] Training Model...", "[4] Validating Model...",
     "[5] Verifying Acceptance Criteria...", "SETUP SUMMARY"}

\* C3: once the environment check, the configuration or the data preparation has
\* failed, the process has exited with status 1 and no later stage has run: no
\* trainer, tester or validator was built, no training job was logged, no result of
\* a later stage exists, none of their banners was printed and setup_summary.json
\* and the two later reports were not written.
C3_EarlyFailureIsFatal ==
    (ConfigureFailed \/ PrepareDataFailed) =>
        /\ pc = "exited"
        /\ exit_status = 1
        /\ trainer = None /\ tester = None /\ validator = None
        /\ training_result = None /\ validation_result = None /\ acceptance_report = None
        /\ \A line \in LaterStageLines : ~Printed(line)
        /\ DOMAIN reports \cap {SummaryFile, "training_report.json", "test_report.json"} = {}

\* The data preparation failed at the manifest, after the files were made.
C3_Witness_PrepareFailedAfterSplit ==
    /\ PrepareDataFailed
    /\ config # None
    /\ fs # {}
    /\ pc = "exited"

PrintsNow(line) == \E k \in (Len(console) + 1)..Len(console') : console'[k] = line

WithApiKey(e, key) == ("AZURE_VISION_API_KEY" :> key) @@ e

\* C7: no value of the config summary, and none of the summary file's
\* configuration section, is the API key, and both are what a run whose
\* environment differs only in the (non-empty) API key produces.
C7_ConfigSummaryHidesApiKey ==
    config # None =>
        /\ \A k \in DOMAIN get_config_dict(config) : get_config_dict(config)[k] # config.api_key
        /\ \A key \in ApiKeys \ {""} :
              get_config_dict(AzureVisionConfig_init(WithApiKey(env, key)).self)
                  = get_config_dict(config)
        /\ SummaryWritten =>
              /\ \A k \in DOMAIN reports[SummaryFile].configuration :
                    reports[SummaryFile].configuration[k] # config.api_key
              /\ \A key \in ApiKeys \ {""} :
                    generate_summary_report(AzureVisionConfig_init(WithApiKey(env, key)).self,
                                            training_result, validation_result,
                                            acceptance_report).ret.configuration
                        = reports[SummaryFile].configuration

C7_Witness_SummaryWrittenWithKey ==
    /\ SummaryWritten
    /\ config # None
    /\ config.api_key = "key-2"
    /\ reports[SummaryFile].configuration.endpoint = config.endpoint

(***************************************************************************)
(* Claims about the tester and the validator called directly               *)
(***************************************************************************)
\* C11: verify_acceptance_criteria on a tester with no stored result returns
\* model_accuracy_validated, inference_working and accuracy_above_threshold all
\* FALSE, whether the connection check succeeded or not.
C11_NoInferenceNoCriteria ==
    (call.op = "verify_acceptance_criteria" /\ tester.test_results = << >>) =>
        /\ call.exc = NoExc
        /\ ~call.ret.model_accuracy_validated
        /\ ~call.ret.inference_working
        /\ ~call.ret.accuracy_above_threshold

\* Verified before any inference, with the connection check answering TRUE.
C11_Witness_ConnectedButNoInference ==
    /\ call.op = "verify_acceptance_criteria"
    /\ tester.test_results = << >>
    /\ call.ret.azure_vision_configured
    /\ ~call.ret.inference_working

TrueKeys(d) == {key \in DOMAIN d : d[key]}

\* C13: a report returned by get_validation_report has all_criteria_met equal to
\* the conjunction of its criteria_results, criteria_results over exactly the two
\* criterion names, and the summary "k/2 criteria met" with k the number of TRUE
\* values of its criteria_results.
C13_ReportIsConsistent ==
    call.op = "get_validation_report" =>
        /\ call.exc = NoExc
        /\ DOMAIN call.ret.criteria_results = {CriterionConfigured, CriterionAccuracy}
        /\ call.ret.all_criteria_met
              = (call.ret.criteria_results[CriterionConfigured]
                   /\ call.ret.criteria_results[CriterionAccuracy])
        /\ call.ret.summary
              = (CASE Cardinality(TrueKeys(call.ret.criteria_results)) = 0 -> "0/2 criteria met"
                   [] Cardinality(TrueKeys(call.ret.criteria_results)) = 1 -> "1/2 criteria met"
                   [] Cardinality(TrueKeys(call.ret.criteria_results)) = 2 -> "2/2 criteria met")

\* A report with one criterion met and the other not.
C13_Witness_OneOfTwoMet ==
    /\ call.op = "get_validation_report"
    /\ call.ret.summary = "1/2 criteria met"
    /\ ~call.ret.all_criteria_met

\* C14: a test report that was written has status "passed" exactly when every
\* value of its own acceptance_criteria is TRUE, and total_tests_run equal to the
\* number of stored results.
C14_StatusMatchesReportedCriteria ==
    (call.op = "generate_test_report" /\ call.exc = NoExc) =>
        /\ call.file.test_report.status = "passed"
              <=> AllValues(call.file.test_report.acceptance_criteria)
        /\ call.file.test_report.total_tests_run = Len(tester.test_results)

PathsOfResults(results) == [j \in DOMAIN results |-> results[j].image_path]

\* C17: run_validation_suite returns one result per path, in input order, counts
\* as correct the results whose first prediction is above 0.85, reports accuracy
\* correct/total (1 and passing for every non-empty input) and passes_threshold
\* exactly when accuracy >= 0.85; the inferences are stored after the results the
\* tester already had, in input order.
C17_SuiteRunsEachPathInOrder ==
    /\ [](call.op = "run_validation_suite" =>
            /\ call.exc = NoExc
            /\ call.ret.total_images = Len(call.arg)
            /\ PathsOfResults(call.ret.results) = call.arg
            /\ call.ret.summary.total_predictions = Len(call.arg)
            /\ call.ret.summary.correct_predictions
                  = Cardinality({j \in DOMAIN call.ret.results :
                                    call.ret.results[j].predictions[1].confidence > 85})
            /\ call.ret.summary.accuracy.num * Len(call.arg)
                  = call.ret.summary.correct_predictions * call.ret.summary.accuracy.den
            /\ call.ret.summary.passes_threshold
                  <=> (call.ret.summary.accuracy.num * 100
                          >= 85 * call.ret.summary.accuracy.den)
            /\ call.arg # << >> =>
                  /\ call.ret.summary.accuracy.num = call.ret.summary.accuracy.den
                  /\ call.ret.summary.passes_threshold)
    /\ [][call'.op = "run_validation_suite" =>
             /\ tester'.test_results = tester.test_results \o call'.ret.results
             /\ PathsOfResults(tester'.test_results)
                   = PathsOfResults(tester.test_results) \o call'.arg]_vars

\* A suite of two different paths run on a tester that already held a result.
C17_Witness_TwoPathsAfterOne ==
    /\ call.op = "run_validation_suite"
    /\ call.arg = <<"b.jpg", "a.jpg">>
    /\ Len(tester.test_results) = 3

ReadOnlyTesterOps ==
    {"test_performance", "verify_acceptance_criteria", "_check_accuracy_threshold",
     "generate_test_report", "AcceptanceCriteriValidator", "validate_all",
     "get_validation_report"}

\* C18: every step keeps the stored results as a prefix of the new list;
\* test_inference adds one entry, run_validation_suite one per path, and
\* test_performance, verify_acceptance_criteria, _check_accuracy_threshold and
\* generate_test_report (and the validator's calls) leave the list as it was.
C18_ResultsAppendOnly ==
    [][/\ Len(tester'.test_results) >= Len(tester.test_results)
       /\ SubSeq(tester'.test_results, 1, Len(tester.test_results)) = tester.test_results
       /\ call'.op = "test_inference" =>
             Len(tester'.test_results) = Len(tester.test_results) + 1
       /\ call'.op = "run_validation_suite" =>
             Len(tester'.test_results) = Len(tester.test_results) + Len(call'.arg)
       /\ call'.op \in ReadOnlyTesterOps =>
             tester'.test_results = tester.test_results]_vars

\* A report generated on a tester holding three results, the last from a suite.
C18_Witness_ReportAfterThreeInferences ==
    /\ call.op = "generate_test_report"
    /\ Len(tester.test_results) = 3
    /\ tester.test_results[1].image_path # tester.test_results[3].image_path

(***************************************************************************)
(* Claims about the trainer called directly                                *)
(***************************************************************************)
MetricsBlock ==
    [accuracy |-> 92, precision |-> 89, recall |-> 91, f1_score |-> 90,
     validation_accuracy |-> 87, training_loss |-> 15, validation_loss |-> 22]

\* C12: every train_model call returns the fixed metrics block and leaves it as
\* the trainer's stored metrics, whatever the split; its job id is the one made from
\* the second it was called in, job ids made in two seconds are equal exactly when
\* the seconds are, and of two calls in a row the second returns the same metrics
\* and the same job id exactly when it was made in the same second.
C12_SameMetricsDistinctJobIds ==
    /\ [](call.op = "train_model" =>
            /\ call.exc = NoExc
            /\ call.ret.metrics = MetricsBlock
            /\ trainer.metrics = MetricsBlock
            /\ call.ret.job_id = JobConfig(call.arg, call.now).job_id
            /\ \A data1 \in Splits, data2 \in Splits, t1 \in 0..MaxClock, t2 \in 0..MaxClock :
                  (JobConfig(data1, t1).job_id = JobConfig(data2, t2).job_id) <=> (t1 = t2))
    /\ [][(call.op = "train_model" /\ call'.op = "train_model") =>
             /\ call'.ret.metrics = call.ret.metrics
             /\ (call'.ret.job_id = call.ret.job_id) <=> (call'.now = call.now)]_vars

\* Two train_model calls, the second on another split a second later.
C12_Witness_TwoCallsOneSecondApart ==
    /\ call.op = "train_model"
    /\ call.now = 1
    /\ Len(trainer.training_logs) = 4
    /\ trainer.training_logs[2].event = "training_completed"
    /\ trainer.training_logs[2].job_id # call.ret.job_id
    /\ call.arg = EmptyDict

NewLogs == SubSeq(trainer'.training_logs, Len(trainer.training_logs) + 1,
                  Len(trainer'.training_logs))

\* C20: the trainer's log only grows at its end: train_model appends
\* training_job_created and then training_completed, both with the returned job id;
\* create_training_job appends one training_job_created with the returned job id;
\* evaluate_model appends one model_evaluated and keeps the stored metrics; and in
\* every state each training_completed entry directly follows a
\* training_job_created entry with the same job id.
C20_LogAppendOnlyAndPaired ==
    /\ [](\A k \in DOMAIN trainer.training_logs :
             trainer.training_logs[k].event = "training_completed" =>
                /\ k > 1
                /\ trainer.training_logs[k - 1].event = "training_job_created"
                /\ trainer.training_logs[k - 1].job_id = trainer.training_logs[k].job_id)
    /\ [][/\ SubSeq(trainer'.training_logs, 1, Len(trainer.training_logs))
                = trainer.training_logs
          /\ call'.op = "train_model" =>
                NewLogs = <<[event |-> "training_job_created", job_id |-> call'.ret.job_id],
                            [event |-> "training_completed", job_id |-> call'.ret.job_id]>>
          /\ call'.op = "create_training_job" =>
                NewLogs = <<[event |-> "training_job_created", job_id |-> call'.ret.job_id]>>
          /\ call'.op = "evaluate_model" =>
                /\ Len(NewLogs) = 1
                /\ NewLogs[1].event = "model_evaluated"
                /\ trainer'.metrics = trainer.metrics
          /\ call'.op \in {"get_model_status", "save_training_report"} =>
                trainer' = trainer]_vars

\* A job created, the model evaluated, then a training run: four entries.
C20_Witness_TrainAfterCreateAndEvaluate ==
    /\ call.op = "train_model"
    /\ Len(trainer.training_logs) = 4
    /\ trainer.training_logs[1].event = "training_job_created"
    /\ trainer.training_logs[2].event = "model_evaluated"
    /\ trainer.training_logs[4].event = "training_completed"

(***************************************************************************)
(* More claims about a run of main()                                       *)
(***************************************************************************)
CountEvent(logs, event) == Cardinality({k \in DOMAIN logs : logs[k].event = event})

\* C15: after the Train stage has completed, the trainer's log holds exactly one
\* training_job_created entry and one training_completed entry, both with the job
\* id of the training result.
C15_OneJobPerTrainingRun ==
    (trainer # None /\ training_result # None) =>
        /\ CountEvent(trainer.training_logs, "training_job_created") = 1
        /\ CountEvent(trainer.training_logs, "training_completed") = 1
        /\ \A k \in DOMAIN trainer.training_logs :
              trainer.training_logs[k].job_id = training_result.job_id

StageBanners ==
    <<"[1] Initializing Azure Vision Configuration...", "[2] Preparing Training Data...",
      "[3] Training Model...", "[4] Validating Model...",
      "[5] Verifying Acceptance Criteria...", "SETUP SUMMARY">>

PositionsOf(line) == {k \in DOMAIN console : console[k] = line}

StageOrder ==
    <<"setup", "configure", "prepare", "train", "validate", "verify", "summarize", "final",
      "exited">>

Rank(at) == CHOOSE k \in DOMAIN StageOrder : StageOrder[k] = at

\* C16: in a run of main() each stage's banner is printed at most once, a stage's
\* banner is printed only after the banners of all earlier stages, Train and
\* Validate are started only with the split PrepareData returned in hand, and every
\* step either moves main to the next stage or ends the run (no stage is entered
\* again).
C16_StagesOnceInOrder ==
    /\ [](/\ \A j \in DOMAIN StageBanners : Cardinality(PositionsOf(StageBanners[j])) <= 1
          /\ \A i \in DOMAIN StageBanners, j \in DOMAIN StageBanners :
                (i < j /\ Printed(StageBanners[j])) =>
                    /\ Printed(StageBanners[i])
                    /\ \A a \in PositionsOf(StageBanners[i]), b \in PositionsOf(StageBanners[j]) :
                          a < b
          /\ (pc \in {"train", "validate"} \/ Printed(StageBanners[3])) =>
                /\ training_data # None
                /\ DOMAIN training_data = {"train", "validation"}
                /\ Printed("Dataset prepared successfully"))
    /\ [][Rank(pc') = Rank(pc) + 1 \/ (pc' = "exited" /\ pc # "exited")]_vars

\* A run that went through all six stages although training failed.
C16_Witness_AllStagesAfterFailedTraining ==
    /\ pc = "exited"
    /\ \A j \in DOMAIN StageBanners : Printed(StageBanners[j])
    /\ Printed("Failed to train model")
    /\ validation_result # None

\* C19: the validator of the VerifyAcceptance stage holds a tester of its own with
\* no stored result, so the acceptance report's accuracy criterion is FALSE,
\* all_criteria_met is FALSE, the summary never says "SUCCESS" and main never exits
\* with status 0.
C19_AcceptanceNeverMet ==
    /\ validator # None =>
          /\ validator.tester = "own"
          /\ validator.own_tester.test_results = << >>
    /\ acceptance_report # None =>
          /\ ~acceptance_report.criteria_results[CriterionAccuracy]
          /\ ~acceptance_report.all_criteria_met
    /\ SummaryWritten => reports[SummaryFile].overall_status = "IN PROGRESS"
    /\ pc = "exited" => exit_status = 1

\* The Validate stage inferred ten images, the connection check passed, and the
\* run still exited with status 1.
C19_Witness_TenInferencesStillUnmet ==
    /\ pc = "exited"
    /\ tester # None
    /\ Len(tester.test_results) = 10
    /\ validation_result # None
    /\ acceptance_report # None
    /\ acceptance_report.criteria_results[CriterionConfigured]
    /\ exit_status = 1

====
